---- MODULE Spec2Model ----
(***************************************************************************)
(* Model of automations.py: the retrying request helper                    *)
(* make_request_with_retries, the paginated fetcher                        *)
(* simple_get_with_pagination built on it, the one-shot fetch_token, the   *)
(* record transformer process_json_data and the second retry helper        *)
(* make_request_with_retry.                                                *)
(*                                                                         *)
(* Every helper is a synchronous call.  A call is modelled as a frame (a   *)
(* record of the function's locals and its position) and the remote server *)
(* as the environment that answers each request with an outcome.           *)
(***************************************************************************)
EXTENDS Integers, Sequences, FiniteSets, TLC

\* ------------------------------------------------------------------ bounds
\* Largest max_retries the caller passes to the retry helpers.
MaxRetries == 2
\* Largest initial_delay (seconds) the caller passes.
MaxInitialDelay == 2
\* Largest page count the endpoint reports.
MaxPages == 3

\* ------------------------------------------------------- program constants
\* make_request_with_retries(..., max_retries=5, initial_delay=1)
DefaultMaxRetries == 5
DefaultInitialDelay == 1
\* make_request_with_retry(..., max_retries=10, backoff_factor=3)
DefaultBackoffFactor == 3
\* params.get("page", 1)
DefaultPage == 1

\* ------------------------------------------------------------ environment
\* Status codes the modelled server answers with: success, a non-error
\* non-200 status, a non-retriable error status, and the retriable ones.
Statuses == {200, 201, 404, 429, 500, 502, 503, 504}

\* elif response.status_code in [429, 500, 502, 503, 504]
RetriableStatuses == {429, 500, 502, 503, 504}

\* One outcome of requests.request / requests.get: a response with a status
\* (and, for a page endpoint, the reported page count), or a transport-level
\* failure raised as requests.exceptions.ConnectionError.
Response(status, pages, docs) ==
    [kind |-> "response", status |-> status, pages |-> pages, docs |-> docs]

TransportFailure == [kind |-> "ConnectionError", status |-> 0, pages |-> 0, docs |-> <<>>]

NoResponse == [kind |-> "none", status |-> 0, pages |-> 0, docs |-> <<>>]

\* What the server can answer one request with, when a 200 body reports one of
\* pageCounts as "pages" and carries docs as "docs".
Outcomes(pageCounts, docs) ==
    {Response(200, p, docs) : p \in pageCounts}
        \cup {Response(s, 0, <<>>) : s \in Statuses \ {200}}
        \cup {TransportFailure}

\* requests.Response.raise_for_status: HTTPError for 4xx and 5xx statuses.
RaisesForStatus(status) == status >= 400 /\ status < 600

VARIABLES
    caller,          \* which top-level call is in progress ("idle" when none)
    served,          \* outcomes the server has produced for the retry helpers
    rt,              \* frame of make_request_with_retries
    ry,              \* frame of make_request_with_retry
    pg,              \* frame of simple_get_with_pagination
    initial_params,  \* the caller's params mapping, passed by reference
    last,            \* the caller's record of its previous pagination call
    tk,              \* frame of fetch_token
    pj               \* frame of process_json_data

vars == <<caller, served, rt, ry, pg, initial_params, last, tk, pj>>

\* ------------------------------------------- make_request_with_retries
\* while retry_count <= max_retries: ... ; raise Exception("All retries failed")
RetriesLoopTest(f) ==
    IF f.retry_count <= f.max_retries
    THEN f
    ELSE [f EXCEPT !.pc = "raised", !.exc = "AllRetriesFailed"]

\* retry_count = 0; delay = initial_delay; then the first loop test.
RetriesEnter(max_retries, initial_delay) ==
    RetriesLoopTest(
        [pc |-> "loop", max_retries |-> max_retries, initial_delay |-> initial_delay,
         retry_count |-> 0, delay |-> initial_delay, requests |-> 0,
         sleeps |-> <<>>, response |-> NoResponse, exc |-> "none"])

\* A backoff that sleeps but never doubles the delay.
RetriesBackoffFixedDelay(f) ==
    [f EXCEPT !.sleeps = Append(@, f.delay), !.retry_count = @ + 1]

\* time.sleep(delay); delay *= 2; retry_count += 1
RetriesBackoff(f) ==
    [f EXCEPT !.sleeps = Append(@, f.delay), !.delay = 2 * @, !.retry_count = @ + 1]

\* An except clause that lets the loop end in the terminal error instead of
\* re-raising the exception it caught.
RetriesExceptNoReraise(f, exc) ==
    IF f.retry_count >= f.max_retries
    THEN [f EXCEPT !.pc = "raised", !.exc = "AllRetriesFailed"]
    ELSE RetriesLoopTest(RetriesBackoff(f))

\* except requests.exceptions.RequestException: re-raise when retry_count has
\* reached max_retries, otherwise back off and go round the loop again.
RetriesExcept(f, exc) ==
    IF f.retry_count >= f.max_retries
    THEN [f EXCEPT !.pc = "raised", !.exc = exc]
    ELSE RetriesLoopTest(RetriesBackoff(f))

\* One pass through the loop body, given the outcome of requests.request.
RetriesIteration(f0, o) ==
    LET f == [f0 EXCEPT !.requests = @ + 1] IN
    IF o.kind = "ConnectionError" THEN RetriesExcept(f, "ConnectionError")
    ELSE IF o.status = 200 THEN [f EXCEPT !.pc = "returned", !.response = o]
    ELSE IF o.status \in RetriableStatuses THEN RetriesLoopTest(RetriesBackoff(f))
    ELSE IF RaisesForStatus(o.status) THEN RetriesExcept(f, "HTTPError")
    ELSE RetriesLoopTest(f)

\* A call is followed for at most one request more than max_retries + 1.
RequestCap(f) == f.max_retries + 2

\* The frame of a helper that has not been called.
RetriesIdle ==
    [pc |-> "idle", max_retries |-> 0, initial_delay |-> 0, retry_count |-> 0,
     delay |-> 0, requests |-> 0, sleeps |-> <<>>, response |-> NoResponse,
     exc |-> "none"]

\* --------------------------------------------- make_request_with_retry
\* for attempt in range(max_retries): ... ; falling off the loop returns None.
RetryLoopTest(f) ==
    IF f.attempt < f.max_retries
    THEN f
    ELSE [f EXCEPT !.pc = "returned_none"]

RetryEnter(max_retries, backoff_factor) ==
    RetryLoopTest(
        [pc |-> "loop", max_retries |-> max_retries, backoff_factor |-> backoff_factor,
         attempt |-> 0, requests |-> 0, sleeps |-> <<>>, response |-> NoResponse,
         exc |-> "none"])

\* except requests.RequestException: sleep backoff_factor * 2 ** attempt and
\* take the next attempt, or re-raise on the last attempt.
RetryExcept(f, exc) ==
    IF f.attempt < f.max_retries - 1
    THEN RetryLoopTest([f EXCEPT !.sleeps = Append(@, f.backoff_factor * (2 ^ f.attempt)),
                                 !.attempt = @ + 1])
    ELSE [f EXCEPT !.pc = "raised", !.exc = exc]

\* One pass through the loop body, given the outcome of requests.get.
RetryIteration(f0, o) ==
    LET f == [f0 EXCEPT !.requests = @ + 1] IN
    IF o.kind = "ConnectionError" THEN RetryExcept(f, "ConnectionError")
    ELSE IF RaisesForStatus(o.status) THEN RetryExcept(f, "HTTPError")
    ELSE [f EXCEPT !.pc = "returned", !.response = o]

RetryIdle ==
    [pc |-> "idle", max_retries |-> 0, backoff_factor |-> 0, attempt |-> 0,
     requests |-> 0, sleeps |-> <<>>, response |-> NoResponse, exc |-> "none"]

\* ------------------------------------------------ the two retry helpers
\* The caller sends the same request through both helpers with the same
\* max_retries.  served[i] is the server's answer to the i-th request of a
\* call, so both calls face the same sequence of outcomes.
CallRetryHelpers ==
    /\ caller = "idle"
    /\ \E m \in 0..MaxRetries, d \in 1..MaxInitialDelay :
        /\ rt' = RetriesEnter(m, d)
        /\ ry' = RetryEnter(m, DefaultBackoffFactor)
    /\ caller' = "retry"
    /\ served' = <<>>
    /\ UNCHANGED <<pg, initial_params, last, tk, pj>>

\* The server's answer to request number n: the recorded one, or a new one.
Answer(n, o) ==
    /\ n <= Len(served) => o = served[n]
    /\ served' = IF n <= Len(served) THEN served ELSE Append(served, o)

\* make_request_with_retries issues its next request and handles the outcome.
RetriesRequest ==
    /\ caller = "retry"
    /\ rt.pc = "loop"
    /\ rt.requests < RequestCap(rt)
    /\ \E o \in Outcomes({0}, <<>>) :
        /\ Answer(rt.requests + 1, o)
        /\ rt' = RetriesIteration(rt, o)
    /\ UNCHANGED <<caller, ry, pg, initial_params, last, tk, pj>>

\* make_request_with_retry issues its next request and handles the outcome.
RetryRequest ==
    /\ caller = "retry"
    /\ ry.pc = "loop"
    /\ \E o \in Outcomes({0}, <<>>) :
        /\ Answer(ry.requests + 1, o)
        /\ ry' = RetryIteration(ry, o)
    /\ UNCHANGED <<caller, rt, pg, initial_params, last, tk, pj>>

\* ------------------------------------------ simple_get_with_pagination
\* The "docs" list the endpoint holds for a page.
PageDocs(p) == <<2 * p - 1, 2 * p>>

\* initial_params.get("page", 1)
GetPage(params) == IF "page" \in DOMAIN params THEN params["page"] ELSE DefaultPage

\* initial_params['page'] = page
SetPage(params, page) ==
    [k \in DOMAIN params \cup {"page"} |-> IF k = "page" THEN page ELSE params[k]]

\* The mappings the caller builds: with or without a start page and a limit.
ParamChoices ==
    {<<>>, [limit |-> 50]}
        \cup {[page |-> s] : s \in 1..MaxPages + 1}
        \cup {[page |-> s, limit |-> 50] : s \in 1..MaxPages + 1}

\* all_data = []; page = initial_params.get("page", 1); headers = {...}
PagEnter(params) ==
    [pc |-> "loop", page |-> GetPage(params), all_data |-> <<>>, exc |-> "none",
     entry |-> params, start |-> GetPage(params), calls |-> <<>>, gets |-> 0,
     all200 |-> TRUE, reported |-> {}, failed |-> FALSE]

PagIdle ==
    [pc |-> "idle", page |-> 0, all_data |-> <<>>, exc |-> "none",
     entry |-> <<>>, start |-> 0, calls |-> <<>>, gets |-> 0,
     all200 |-> TRUE, reported |-> {}, failed |-> FALSE]

\* A break test that is off by one page.
LastPageOffByOne(page, pages) == page > pages

\* if page >= data['pages']: break
LastPage(page, pages) == page >= pages

\* requests.Response.__bool__ is Response.ok: no 4xx or 5xx status.
ResponseTruthy(r) == r.kind = "response" /\ ~RaisesForStatus(r.status)

\* The top of the while True loop: initial_params['page'] = page, then the
\* call make_request_with_retries(url, 'GET', headers, params=initial_params).
PagLoopTop(params, f) ==
    /\ initial_params' = SetPage(params, f.page)
    /\ rt' = RetriesEnter(DefaultMaxRetries, DefaultInitialDelay)
    /\ pg' = [f EXCEPT !.pc = "call", !.calls = Append(@, f.page)]

\* The caller builds a params mapping and calls simple_get_with_pagination.
PagFirstCall ==
    /\ caller = "idle"
    /\ caller' = "paginate"
    /\ \E params \in ParamChoices : PagLoopTop(params, PagEnter(params))
    /\ UNCHANGED <<served, ry, last, tk, pj>>

\* After a call has returned, the caller calls again with the same mapping.
PagCallAgain ==
    /\ caller = "paginate"
    /\ pg.pc = "returned"
    /\ last' = [calls |-> pg.calls, docs |-> pg.all_data, all200 |-> pg.all200,
                reported |-> pg.reported]
    /\ PagLoopTop(initial_params, PagEnter(initial_params))
    /\ UNCHANGED <<caller, served, ry, tk, pj>>

\* make_request_with_retries, called by the fetcher, issues its next request;
\* the endpoint answers for the page named in the params it was passed.
PagRequest ==
    /\ caller = "paginate"
    /\ pg.pc = "call"
    /\ rt.pc = "loop"
    /\ rt.requests < RequestCap(rt)
    /\ \E o \in Outcomes(1..MaxPages, PageDocs(initial_params["page"])) :
        /\ rt' = RetriesIteration(rt, o)
        /\ pg' = [pg EXCEPT !.gets = @ + 1,
                            !.all200 = @ /\ o.kind = "response" /\ o.status = 200,
                            !.reported = IF o.kind = "response" /\ o.status = 200
                                         THEN @ \cup {o.pages} ELSE @]
    /\ UNCHANGED <<caller, served, ry, initial_params, last, tk, pj>>

\* make_request_with_retries has returned a response to the fetcher: the rest
\* of the loop body, and the next iteration's call if there is one.
PagResponse ==
    /\ caller = "paginate"
    /\ pg.pc = "call"
    /\ rt.pc = "returned"
    /\ LET response == rt.response IN
        IF ResponseTruthy(response) /\ response.status = 200
        THEN LET f == [pg EXCEPT !.all_data = @ \o response.docs] IN
             IF LastPage(f.page, response.pages)
             THEN /\ pg' = [f EXCEPT !.pc = "returned"]
                  /\ rt' = RetriesIdle
                  /\ UNCHANGED initial_params
             ELSE PagLoopTop(initial_params, [f EXCEPT !.page = @ + 1])
        ELSE /\ pg' = [pg EXCEPT !.pc = "returned", !.failed = TRUE]
             /\ rt' = RetriesIdle
             /\ UNCHANGED initial_params
    /\ UNCHANGED <<caller, served, ry, last, tk, pj>>

\* make_request_with_retries has raised: nothing in the fetcher catches it,
\* so the exception leaves simple_get_with_pagination.
PagException ==
    /\ caller = "paginate"
    /\ pg.pc = "call"
    /\ rt.pc = "raised"
    /\ pg' = [pg EXCEPT !.pc = "raised", !.exc = rt.exc, !.failed = TRUE]
    /\ rt' = RetriesIdle
    /\ UNCHANGED <<caller, served, ry, initial_params, last, tk, pj>>

NoLast == [calls |-> <<>>, docs |-> <<>>, all200 |-> FALSE, reported |-> {}]

\* -------------------------------------------------------------- fetch_token
\* Python's None, and a value that is not None.
None == [none |-> TRUE, value |-> <<>>]

Some(v) == [none |-> FALSE, value |-> v]

\* if headers is None: headers = {"Content-Type": "application/json"}
TokenHeaders(headers) ==
    IF headers.none THEN [ContentType |-> "application/json"] ELSE headers.value

\* response.json().get('token')
JsonGetToken(obj) == IF "token" \in DOMAIN obj THEN Some(obj["token"]) ELSE None

\* The login responses of the modelled server: a status and a body that is a
\* JSON object (with or without a token field) or not JSON at all.
LoginBodies ==
    {[json |-> TRUE, obj |-> [token |-> "abc123"]],
     [json |-> TRUE, obj |-> [token |-> "t0k", user |-> "u1"]],
     [json |-> TRUE, obj |-> [error |-> "denied"]],
     [json |-> FALSE, obj |-> <<>>]}

LoginOutcomes ==
    {[kind |-> "response", status |-> s, body |-> b] :
        s \in {200, 201, 401, 500}, b \in LoginBodies}
        \cup {[kind |-> "ConnectionError", status |-> 0,
               body |-> [json |-> FALSE, obj |-> <<>>]]}

\* A fetch_token that reads the token without looking at the status code.
FetchTokenIgnoringStatus(base_url, login_endpoint, credentials, headers, o) ==
    LET f == [pc |-> "returned", posts |-> 1,
              full_url |-> <<base_url, "/", login_endpoint>>,
              json |-> credentials, headers |-> TokenHeaders(headers),
              response |-> o, result |-> None, exc |-> "none"]
    IN  IF o.kind = "ConnectionError"
        THEN [f EXCEPT !.pc = "raised", !.exc = "ConnectionError"]
        ELSE IF o.body.json
        THEN [f EXCEPT !.result = JsonGetToken(o.body.obj)]
        ELSE [f EXCEPT !.pc = "raised", !.exc = "JSONDecodeError"]

\* The whole of fetch_token, given the outcome of its requests.post.
FetchToken(base_url, login_endpoint, credentials, headers, o) ==
    LET f == [pc |-> "returned", posts |-> 1,
              full_url |-> <<base_url, "/", login_endpoint>>,
              json |-> credentials, headers |-> TokenHeaders(headers),
              response |-> o, result |-> None, exc |-> "none"]
    IN  IF o.kind = "ConnectionError"
        THEN [f EXCEPT !.pc = "raised", !.exc = "ConnectionError"]
        ELSE IF o.status = 200
        THEN IF o.body.json
             THEN [f EXCEPT !.result = JsonGetToken(o.body.obj)]
             ELSE [f EXCEPT !.pc = "raised", !.exc = "JSONDecodeError"]
        ELSE f

TokenIdle ==
    [pc |-> "idle", posts |-> 0, full_url |-> <<>>, json |-> <<>>, headers |-> <<>>,
     response |-> [kind |-> "none", status |-> 0, body |-> [json |-> FALSE, obj |-> <<>>]],
     result |-> None, exc |-> "none"]

\* The caller logs in, with the default headers or with its own.
CallFetchToken ==
    /\ caller = "idle"
    /\ caller' = "token"
    /\ \E headers \in {None, Some([Accept |-> "application/json"])},
          o \in LoginOutcomes :
        tk' = FetchToken("https://api", "login", [username |-> "u", password |-> "p"],
                         headers, o)
    /\ UNCHANGED <<served, rt, ry, pg, initial_params, last, pj>>

\* -------------------------------------------------------- process_json_data
\* The names bound in the module's namespace: its imports (import requests,
\* time, sys, subprocess, pg8000.native, ssl, hashlib, re) and its functions.
ModuleNames ==
    {"requests", "time", "sys", "subprocess", "pg8000", "ssl", "hashlib", "re",
     "install_libraries_in_current_env", "fetch_token", "make_request_with_retries",
     "simple_get_with_pagination", "connect_to_database", "query_to_dataframe",
     "normalize_phone_number", "process_json_data", "make_request_with_retry"}

\* Cell values: a string is the sequence of its pieces, so that 'A B' is
\* <<"A", " ", "B">>; an integer is kept apart from the string of its digits.
Str(pieces) == [type |-> "str", v |-> pieces]

IntVal(digits) == [type |-> "int", v |-> <<digits>>]

NaN == [type |-> "nan", v |-> <<>>]

\* A record of raw_data is a sequence of <<key, value>> pairs (a dict keeps
\* insertion order); a data frame is its column names and its rows.
Keys(rec) == [i \in 1..Len(rec) |-> rec[i][1]]

Range(seq) == {seq[i] : i \in 1..Len(seq)}

Lookup(rec, key) ==
    IF key \in Range(Keys(rec))
    THEN rec[CHOOSE i \in 1..Len(rec) : rec[i][1] = key][2]
    ELSE NaN

RECURSIVE Union(_, _)
\* seq followed by the elements of more it does not hold yet, in order.
Union(seq, more) ==
    IF more = <<>> THEN seq
    ELSE Union(IF Head(more) \in Range(seq) THEN seq ELSE Append(seq, Head(more)),
               Tail(more))

RECURSIVE AllKeys(_)
AllKeys(raw_data) ==
    IF raw_data = <<>> THEN <<>>
    ELSE Union(Keys(Head(raw_data)), AllKeys(Tail(raw_data)))

\* pd.json_normalize(raw_data), for records without nested values: one row
\* per record, one column per key in order of first appearance.
JsonNormalize(raw_data) ==
    LET columns == AllKeys(raw_data) IN
    [exc |-> "none", columns |-> columns,
     rows |-> [r \in 1..Len(raw_data) |->
                  [c \in Range(columns) |-> Lookup(raw_data[r], c)]]]

Raise(exc) == [exc |-> exc, columns |-> <<>>, rows |-> <<>>]

\* df.rename(columns=column_mappings, inplace=True)
Rename(df, mapping) ==
    LET new(c) == IF c \in DOMAIN mapping THEN mapping[c] ELSE c
        old(n) == CHOOSE c \in Range(df.columns) : new(c) = n
    IN  [df EXCEPT !.columns = [i \in 1..Len(df.columns) |-> new(df.columns[i])],
                   !.rows = [r \in 1..Len(df.rows) |->
                               [n \in {new(c) : c \in Range(df.columns)} |->
                                   df.rows[r][old(n)]]]]

RECURSIVE SpaceJoin(_)
\* ' '.join(values)
SpaceJoin(values) ==
    IF values = <<>> THEN <<>>
    ELSE IF Len(values) = 1 THEN values[1].v
    ELSE values[1].v \o <<" ">> \o SpaceJoin(Tail(values))

\* df[new_field] = df[fields].agg(' '.join, axis=1)
Concat(df, new_field, fields) ==
    IF df.exc # "none" THEN df
    ELSE IF ~(Range(fields) \subseteq Range(df.columns)) THEN Raise("KeyError")
    ELSE IF \E r \in 1..Len(df.rows), c \in Range(fields) : df.rows[r][c].type # "str"
    THEN Raise("TypeError")
    ELSE [df EXCEPT !.columns = Union(@, <<new_field>>),
                    !.rows = [r \in 1..Len(df.rows) |->
                                [c \in Range(df.columns) \cup {new_field} |->
                                    IF c = new_field
                                    THEN Str(SpaceJoin([i \in 1..Len(fields) |->
                                                           df.rows[r][fields[i]]]))
                                    ELSE df.rows[r][c]]]]

RECURSIVE ConcatAll(_, _)
\* for new_field, fields in concat_fields: ...
ConcatAll(df, concat_fields) ==
    IF concat_fields = <<>> THEN df
    ELSE ConcatAll(Concat(df, Head(concat_fields)[1], Head(concat_fields)[2]),
                   Tail(concat_fields))

\* df.merge(join_data, on='common_column', how='left'), for a join_data with
\* at most one row per key: the key column is the literal 'common_column'.
Merge(df, join_data) ==
    IF df.exc # "none" THEN df
    ELSE IF "common_column" \notin Range(df.columns)
            \/ "common_column" \notin Range(join_data.columns)
    THEN Raise("KeyError")
    ELSE LET columns == Union(df.columns, join_data.columns)
             match(r) == {j \in 1..Len(join_data.rows) :
                            join_data.rows[j]["common_column"] = df.rows[r]["common_column"]}
         IN  [df EXCEPT !.columns = columns,
                        !.rows = [r \in 1..Len(df.rows) |->
                                    [c \in Range(columns) |->
                                        IF c \in Range(df.columns) THEN df.rows[r][c]
                                        ELSE IF match(r) = {} THEN NaN
                                        ELSE join_data.rows[CHOOSE j \in match(r) : TRUE][c]]]]

\* df[limit_fields]
Limit(df, limit_fields) ==
    IF df.exc # "none" THEN df
    ELSE IF ~(Range(limit_fields) \subseteq Range(df.columns)) THEN Raise("KeyError")
    ELSE [df EXCEPT !.columns = limit_fields,
                    !.rows = [r \in 1..Len(df.rows) |->
                                [c \in Range(limit_fields) |-> df.rows[r][c]]]]

\* The body of process_json_data once the name pd has been resolved.
Transform(raw_data, join_data, column_mappings, concat_fields, limit_fields) ==
    LET df1 == JsonNormalize(raw_data)
        df2 == IF ~column_mappings.none /\ DOMAIN column_mappings.value # {}
               THEN Rename(df1, column_mappings.value) ELSE df1
        df3 == IF ~concat_fields.none /\ concat_fields.value # <<>>
               THEN ConcatAll(df2, concat_fields.value) ELSE df2
        df4 == IF ~join_data.none THEN Merge(df3, join_data.value) ELSE df3
    IN  IF ~limit_fields.none /\ limit_fields.value # <<>>
        THEN Limit(df4, limit_fields.value) ELSE df4

\* process_json_data: its first statement reads the global name pd, which no
\* statement of the module binds, so the lookup raises NameError.
ProcessJsonData(raw_data, join_data, column_mappings, concat_fields, limit_fields) ==
    IF "pd" \notin ModuleNames
    THEN Raise("NameError")
    ELSE Transform(raw_data, join_data, column_mappings, concat_fields, limit_fields)

\* The inputs the caller passes.
RawDataChoices ==
    {<<>>,
     << <<<<"first_name", Str(<<"A">>)>>, <<"last_name", Str(<<"B">>)>>, <<"id", IntVal("1")>>>> >>,
     << <<<<"first_name", Str(<<"A">>)>>, <<"last_name", Str(<<"B">>)>>, <<"id", IntVal("1")>>>>,
        <<<<"id", IntVal("2")>>, <<"first_name", Str(<<"C">>)>>, <<"last_name", Str(<<"D">>)>>>> >>}

ConcatChoices ==
    {None, Some(<< <<"full_name", <<"first_name", "last_name">>>> >>),
     Some(<< <<"name", <<"last_name", "first_name">>>>,
             <<"full_name", <<"first_name", "name">>>> >>)}

LimitChoices == {None, Some(<<"id", "full_name">>), Some(<<"full_name">>)}

MappingChoices == {None, Some([first_name |-> "given_name"])}

JoinChoices ==
    {None,
     Some([exc |-> "none", columns |-> <<"common_column", "community">>,
           rows |-> << [common_column |-> IntVal("1"), community |-> Str(<<"X">>)] >>])}

TransformIdle ==
    [pc |-> "idle", raw_data |-> <<>>, join_data |-> None, column_mappings |-> None,
     concat_fields |-> None, limit_fields |-> None, df |-> Raise("none")]

\* The caller reshapes a list of records.
CallProcessJsonData ==
    /\ caller = "idle"
    /\ caller' = "process"
    /\ \E raw_data \in RawDataChoices, join_data \in JoinChoices,
          column_mappings \in MappingChoices, concat_fields \in ConcatChoices,
          limit_fields \in LimitChoices :
        LET df == ProcessJsonData(raw_data, join_data, column_mappings,
                                  concat_fields, limit_fields)
        IN  pj' = [pc |-> IF df.exc = "none" THEN "returned" ELSE "raised",
                   raw_data |-> raw_data, join_data |-> join_data,
                   column_mappings |-> column_mappings,
                   concat_fields |-> concat_fields, limit_fields |-> limit_fields,
                   df |-> df]
    /\ UNCHANGED <<served, rt, ry, pg, initial_params, last, tk>>

Init ==
    /\ caller = "idle"
    /\ served = <<>>
    /\ rt = RetriesIdle
    /\ ry = RetryIdle
    /\ pg = PagIdle
    /\ initial_params = <<>>
    /\ last = NoLast
    /\ tk = TokenIdle
    /\ pj = TransformIdle

Next ==
    \/ CallRetryHelpers
    \/ RetriesRequest
    \/ RetryRequest
    \/ PagFirstCall
    \/ PagCallAgain
    \/ PagRequest
    \/ PagResponse
    \/ PagException
    \/ CallFetchToken
    \/ CallProcessJsonData

Spec == Init /\ [][Next]_vars

\* ==================================================================== claims
\* The outcomes make_request_with_retries has received so far in this call.
RetriesSeen == SubSeq(served, 1, rt.requests)

IsRetriable(o) == o.kind = "response" /\ o.status \in RetriableStatuses

IsTransportFailure(o) == o.kind = "ConnectionError"

IsNonRetriableError(o) ==
    o.kind = "response" /\ o.status \notin RetriableStatuses /\ RaisesForStatus(o.status)

AllRetriable == \A i \in 1..Len(RetriesSeen) : IsRetriable(RetriesSeen[i])

\* C1: when every response has a retriable status, make_request_with_retries
\* never returns, sleeps after every failed attempt, the k-th sleep being
\* initial_delay * 2^(k-1), keeps issuing requests until it has issued
\* max_retries + 1 of them, and then fails with the terminal error.
C1_ExactAttemptsAndDoubling ==
    (caller = "retry" /\ AllRetriable) =>
        /\ rt.pc \in {"loop", "raised"}
        /\ rt.requests <= rt.max_retries + 1
        /\ rt.pc = "loop" => rt.requests <= rt.max_retries
        /\ rt.pc = "raised" =>
            rt.requests = rt.max_retries + 1 /\ rt.exc = "AllRetriesFailed"
        /\ Len(rt.sleeps) = rt.requests
        /\ \A k \in 1..Len(rt.sleeps) : rt.sleeps[k] = rt.initial_delay * 2 ^ (k - 1)

C1_Witness ==
    /\ caller = "retry" /\ AllRetriable
    /\ rt.pc = "raised" /\ rt.max_retries = 2 /\ rt.initial_delay = 2
    /\ rt.requests = 3 /\ rt.sleeps = <<2, 4, 8>>

\* C2: when the first response has a non-retriable error status, the call has
\* failed with an HTTP error after that one request, without sleeping.
C2_NonRetriableFailsAtOnce ==
    (caller = "retry" /\ rt.requests >= 1 /\ IsNonRetriableError(served[1])) =>
        /\ rt.pc = "raised" /\ rt.exc = "HTTPError"
        /\ rt.requests = 1
        /\ rt.sleeps = <<>>

RECURSIVE ConcatDocs(_, _)
\* The docs of pages s, s+1, ..., p in that order.
ConcatDocs(s, p) == IF s > p THEN <<>> ELSE PageDocs(s) \o ConcatDocs(s + 1, p)

\* The pages s, s+1, ..., s+n-1.
PagesFrom(s, n) == [i \in 1..n |-> s + i - 1]

\* C3: against an endpoint that answers every request with 200 and one page
\* count P >= the start page s, the fetcher calls the retry helper once per
\* page s, s+1, ..., in that order, each call issuing one GET whose page
\* parameter is that page, and returns after exactly P - s + 1 GETs with the
\* docs of pages s..P concatenated in order.
C3_SequentialPages ==
    \A P \in 1..MaxPages :
        (caller = "paginate" /\ pg.all200 /\ pg.reported \subseteq {P} /\ pg.start <= P) =>
            /\ pg.pc \in {"call", "returned"}
            /\ pg.calls = PagesFrom(pg.start, Len(pg.calls))
            /\ pg.page = pg.calls[Len(pg.calls)]
            /\ initial_params["page"] = pg.page
            /\ pg.page <= P
            /\ pg.gets = (IF pg.pc = "call" THEN Len(pg.calls) - 1 ELSE Len(pg.calls))
                            + (IF rt.pc = "returned" THEN 1 ELSE 0)
            /\ pg.all_data = ConcatDocs(pg.start, pg.start + Len(pg.all_data) \div 2 - 1)
            /\ pg.pc = "returned" =>
                /\ pg.gets = P - pg.start + 1
                /\ pg.calls = PagesFrom(pg.start, P - pg.start + 1)
                /\ pg.all_data = ConcatDocs(pg.start, P)

C3_Witness ==
    /\ caller = "paginate" /\ pg.pc = "returned" /\ pg.all200
    /\ pg.reported = {3} /\ pg.start = 1
    /\ pg.gets = 3 /\ pg.calls = <<1, 2, 3>>
    /\ pg.all_data = <<1, 2, 3, 4, 5, 6>>

\* C4: when the request for some page does not end in a successful response,
\* the fetcher has returned normally, with the docs of the pages before it.
C4_FailureReturnsPartialDocs ==
    (caller = "paginate" /\ pg.failed) =>
        /\ pg.pc = "returned"
        /\ pg.all_data = ConcatDocs(pg.start, pg.page - 1)

\* Every failed attempt so far was a retriable status or a transport failure.
OnlyRetriableOrTransport ==
    \A i \in 1..Len(RetriesSeen) :
        IsRetriable(RetriesSeen[i]) \/ IsTransportFailure(RetriesSeen[i])

\* C5 as claimed: whenever retriable statuses and transport failures, in any
\* mix, exhaust the retries, the error raised is the terminal error.
C5_AlwaysTerminalError ==
    (caller = "retry" /\ rt.pc = "raised" /\ OnlyRetriableOrTransport) =>
        rt.exc = "AllRetriesFailed"

\* C5 as amended: when retriable statuses and transport failures exhaust the
\* retries, the call has issued max_retries + 1 requests; the error raised is
\* the terminal error when the last attempt got a retriable status, and the
\* re-raised transport exception when the last attempt failed in transport.
C5_ErrorFollowsLastAttempt ==
    (caller = "retry" /\ rt.pc = "raised" /\ OnlyRetriableOrTransport) =>
        /\ rt.requests = rt.max_retries + 1
        /\ IsRetriable(served[rt.requests]) => rt.exc = "AllRetriesFailed"
        /\ IsTransportFailure(served[rt.requests]) => rt.exc = "ConnectionError"

C5_Witness ==
    /\ caller = "retry" /\ rt.pc = "raised" /\ OnlyRetriableOrTransport
    /\ rt.requests = 3
    /\ IsRetriable(served[1]) /\ IsTransportFailure(served[3])
    /\ rt.exc = "ConnectionError"

\* C6: after simple_get_with_pagination returns, the caller's mapping holds
\* the entries it held on entry, and a call that follows a call with the same
\* endpoint behaviour requests the same pages and returns the same docs.
C6_ParamsUntouched ==
    (caller = "paginate" /\ pg.pc = "returned") =>
        /\ initial_params = pg.entry
        /\ (last.calls # <<>> /\ last.all200 /\ pg.all200
                /\ Cardinality(pg.reported) = 1 /\ last.reported = pg.reported) =>
            pg.calls = last.calls /\ pg.all_data = last.docs

\* C7: fetch_token issues one POST per call; a 200 response whose JSON body
\* has a token field yields exactly that token; a non-200 response, or a 200
\* response whose JSON body has no token field, yields None.
C7_TokenOrNone ==
    caller = "token" =>
        LET r == tk.response IN
        /\ tk.posts = 1
        /\ (r.kind = "response" /\ r.status = 200 /\ r.body.json
                /\ "token" \in DOMAIN r.body.obj) =>
            /\ tk.pc = "returned"
            /\ ~tk.result.none
            /\ tk.result.value = r.body.obj["token"]
        /\ (r.kind = "response" /\ r.status # 200) =>
            tk.pc = "returned" /\ tk.result.none
        /\ (r.kind = "response" /\ r.status = 200 /\ r.body.json
                /\ "token" \notin DOMAIN r.body.obj) =>
            tk.pc = "returned" /\ tk.result.none

C7_Witness ==
    /\ caller = "token" /\ tk.pc = "returned" /\ tk.posts = 1
    /\ tk.response.status = 200
    /\ ~tk.result.none /\ tk.result.value = "abc123"

\* C8: with only concat_fields [('full_name', ['first_name', 'last_name'])]
\* and limit_fields ['id', 'full_name'], process_json_data returns one row
\* per record, in order, with the columns id and full_name, full_name being
\* the first and last name joined by one space.
C8_ConcatThenLimit ==
    (caller = "process" /\ pj.join_data.none /\ pj.column_mappings.none
        /\ ~pj.concat_fields.none /\ ~pj.limit_fields.none
        /\ pj.concat_fields.value = << <<"full_name", <<"first_name", "last_name">>>> >>
        /\ pj.limit_fields.value = <<"id", "full_name">>) =>
        /\ pj.pc = "returned"
        /\ pj.df.columns = <<"id", "full_name">>
        /\ Len(pj.df.rows) = Len(pj.raw_data)
        /\ \A r \in 1..Len(pj.raw_data) :
            /\ pj.df.rows[r]["id"] = Lookup(pj.raw_data[r], "id")
            /\ pj.df.rows[r]["full_name"] =
                Str(Lookup(pj.raw_data[r], "first_name").v \o <<" ">>
                        \o Lookup(pj.raw_data[r], "last_name").v)

\* C9: whatever the server answers, one call of make_request_with_retries
\* issues at most max_retries + 1 requests.
C9_RequestsBounded ==
    caller = "retry" => rt.requests <= rt.max_retries + 1

\* C10: once both helpers have finished against the same outcomes, they have
\* issued the same number of requests and ended the same way.
C10_SameRequestsSameEnd ==
    (caller = "retry" /\ rt.pc \in {"returned", "raised"}
        /\ ry.pc \in {"returned", "returned_none", "raised"}) =>
        /\ ry.requests = rt.requests
        /\ ry.pc = rt.pc

====
